---- MODULE Spec2Model ----
(***************************************************************************)
(* Model of tiago_description/tiago_launch_utils.py: the launch helpers    *)
(* that declare the TIAGo hardware launch arguments, build the hardware    *)
(* suffix expression and build the xacro command producing the robot       *)
(* description.                                                            *)
(*                                                                         *)
(* Text is modelled by TLA+ strings and Python's + / ''.join by \o.        *)
(* Python lists are sequences.  A launch Substitution is a record          *)
(* [kind, arg]; a plain str fragment has kind "Text".                      *)
(***************************************************************************)
EXTENDS Integers, Sequences, FiniteSets, TLC

VARIABLES
    hw_in,            \* arguments of the latest get_tiago_hw_arguments call
    hw_out,           \* the list that call returned
    suffix_in,        \* flags of the latest get_tiago_hw_suffix call
    suffix_elements,  \* fragments of the PythonExpression that call returned
    stdout,           \* what that call printed
    description,      \* fragments of the Command built by generate_robot_description_action
    config,           \* context.launch_configurations: name -> resolved value
    result,           \* outcome of the latest evaluation in the current context
    evaluated_before  \* history: the suffix expression was evaluated in an
                      \* earlier context

vars == <<hw_in, hw_out, suffix_in, suffix_elements, stdout, description,
          config, result, evaluated_before>>

(***************************************************************************)
(* Bounds of the model.                                                    *)
(***************************************************************************)
\* longest list the base-hardware provider returns
MaxBase == 2

(***************************************************************************)
(* Names.                                                                  *)
(***************************************************************************)
\* the five flags, in the order the source tests them
HwOrder == <<"arm", "wrist_model", "end_effector", "ft_sensor", "camera_model">>

HwNames == {HwOrder[i] : i \in 1..Len(HwOrder)}

Range(s) == {s[i] : i \in 1..Len(s)}

(***************************************************************************)
(* launch.actions.DeclareLaunchArgument(name, default_value, description,  *)
(* choices): the declaration object, as the source constructs it.          *)
(***************************************************************************)
\* a declaration that falls back to the first choice when the default is
\* no member of the choices
DeclareLaunchArgument_checked(name, default_value, descr, choices) ==
    [name |-> name,
     default_value |-> IF default_value \in Range(choices)
                         THEN default_value ELSE choices[1],
     description |-> descr, choices |-> choices]

DeclareLaunchArgument(name, default_value, descr, choices) ==
    [name |-> name, default_value |-> default_value,
     description |-> descr, choices |-> choices]

(***************************************************************************)
(* pmb2_description.get_tiago_base_hw_arguments(kwargs): an external       *)
(* provider; the lists it may return are every list of at most MaxBase     *)
(* base declarations.                                                      *)
(***************************************************************************)
BaseDeclarations ==
    { DeclareLaunchArgument("wheel_model", "moog", "Wheel model, ",
                            <<"nadia", "moog">>),
      DeclareLaunchArgument("laser_model", "sick-571", "Base laser model. ",
                            <<"no-laser", "sick-571", "sick-561", "sick-551", "hokuyo">>) }

get_tiago_base_hw_arguments ==
    UNION { [1..n -> BaseDeclarations] : n \in 0..MaxBase }

(***************************************************************************)
(* get_tiago_hw_arguments.  A keyword the caller omits is bound to the     *)
(* default of the signature (lines 25-34).                                 *)
(***************************************************************************)
\* a flag the caller omits is False
Flag(flags, key) == IF key \in DOMAIN flags THEN flags[key] ELSE FALSE

\* a parameter hard-wired to the default of the signature
Param_fixed(kwargs, key, dflt) == dflt

Param(kwargs, key, dflt) == IF key \in DOMAIN kwargs THEN kwargs[key] ELSE dflt

\* args.insert(0, decl) in place of args.append(decl)
Insert_if(cond, args, decl) == IF cond THEN <<decl>> \o args ELSE args

Append_if(cond, args, decl) == IF cond THEN Append(args, decl) ELSE args

get_tiago_hw_arguments(flags, kwargs, base) ==
    LET arm          == Flag(flags, "arm")
        wrist_model  == Flag(flags, "wrist_model")
        end_effector == Flag(flags, "end_effector")
        ft_sensor    == Flag(flags, "ft_sensor")
        camera_model == Flag(flags, "camera_model")
        default_arm          == Param(kwargs, "default_arm", "no-arm")
        default_wrist_model  == Param(kwargs, "default_wrist_model", "wrist-2010")
        default_end_effector == Param(kwargs, "default_end_effector", "no-end-effector")
        default_ft_sensor    == Param(kwargs, "default_ft_sensor", "schunk-ft")
        default_camera_model == Param(kwargs, "default_camera_model", "orbbec-astra")
        args0 == base
        args1 == Append_if(arm, args0,
                   DeclareLaunchArgument("arm", default_arm,
                       "Which type of arm TIAGo has. ",
                       <<"no-arm", "left-arm", "right-arm">>))
        args2 == Append_if(wrist_model, args1,
                   DeclareLaunchArgument("wrist_model", default_wrist_model,
                       "Wrist model. ",
                       <<"wrist-2010", "wrist-2017">>))
        args3 == Append_if(end_effector, args2,
                   DeclareLaunchArgument("end_effector", default_end_effector,
                       "End effector model.",
                       <<"pal-gripper", "pal-hey5", "schunk-wsg",
                         "custom", "no-end-effector">>))
        args4 == Append_if(ft_sensor, args3,
                   DeclareLaunchArgument("ft_sensor", default_ft_sensor,
                       "FT sensor model. ",
                       <<"schunk-ft", "no-ft-sensor">>))
        args5 == Append_if(camera_model, args4,
                   DeclareLaunchArgument("camera_model", default_camera_model,
                       "Head camera model. ",
                       <<"no-camera", "orbbec-astra", "orbbec-astra-pro",
                         "asus-xtion">>))
    IN  args5

(***************************************************************************)
(* Fragments of a deferred expression: a plain str, or a substitution      *)
(* object built now and performed later against a launch context.  arg     *)
(* holds the constructor's arguments, as a list of strings.                *)
(***************************************************************************)
Text(s) == [kind |-> "Text", arg |-> <<s>>]

\* the value read from the launch context when the expression is built
LaunchConfiguration_resolved(name) ==
    Text(IF name \in DOMAIN config THEN config[name] ELSE "")

LaunchConfiguration(name) == [kind |-> "LaunchConfiguration", arg |-> <<name>>]

ExecutableInPackage(package, executable) ==
    [kind |-> "ExecutableInPackage", arg |-> <<package, executable>>]

\* PathJoinSubstitution([FindPackageShare(package)] + parts)
PathJoinSubstitution(package, parts) ==
    [kind |-> "PathJoinSubstitution", arg |-> <<package>> \o parts]

TiagoXacroConfigSubstitution == [kind |-> "TiagoXacroConfigSubstitution", arg |-> <<>>]

(***************************************************************************)
(* get_tiago_hw_suffix.                                                    *)
(***************************************************************************)
\* the slice kept whole
DropLast_kept(list) == list

\* list[:-1]
DropLast(list) == SubSeq(list, 1, Len(list) - 1)

Extend_if(cond, elements, name) ==
    IF cond THEN elements \o <<LaunchConfiguration(name), Text("_")>> ELSE elements

get_tiago_hw_suffix(flags) ==
    LET arm          == Flag(flags, "arm")
        wrist_model  == Flag(flags, "wrist_model")
        end_effector == Flag(flags, "end_effector")
        ft_sensor    == Flag(flags, "ft_sensor")
        camera_model == Flag(flags, "camera_model")
        e0 == <<Text("'")>>
        e1 == Extend_if(arm, e0, "arm")
        e2 == Extend_if(wrist_model, e1, "wrist_model")
        e3 == Extend_if(end_effector, e2, "end_effector")
        e4 == Extend_if(ft_sensor, e3, "ft_sensor")
        e5 == Extend_if(camera_model, e4, "camera_model")
        e6 == DropLast(e5)
    IN  Append(e6, Text("'"))

(***************************************************************************)
(* generate_robot_description_action: the fragments of the Command.        *)
(***************************************************************************)
\* the command without its ' ' fragment
generate_robot_description_action_unspaced ==
    << ExecutableInPackage("xacro", "xacro"),
       PathJoinSubstitution("tiago_description", <<"robots", "tiago.urdf.xacro">>),
       TiagoXacroConfigSubstitution >>

generate_robot_description_action ==
    << ExecutableInPackage("xacro", "xacro"),
       Text(" "),
       PathJoinSubstitution("tiago_description", <<"robots", "tiago.urdf.xacro">>),
       TiagoXacroConfigSubstitution >>

(***************************************************************************)
(* Outcome of a call: the text returned, or the exception raised.          *)
(***************************************************************************)
Returned(text) == [status |-> "returned", text |-> text, error |-> ""]

Raised(error) == [status |-> "raised", text |-> "", error |-> error]

(***************************************************************************)
(* LaunchConfiguration.perform: the value bound to the name; a name that   *)
(* is not in context.launch_configurations raises SubstitutionFailure.     *)
(* launch_pal's read_launch_argument performs LaunchConfiguration(name).   *)
(***************************************************************************)
DoesNotExist(name) == "launch configuration '" \o name \o "' does not exist"

LaunchConfiguration_perform(name, context) ==
    IF name \in DOMAIN context THEN Returned(context[name])
    ELSE Raised(DoesNotExist(name))

read_launch_argument(name, context) == LaunchConfiguration_perform(name, context)

(***************************************************************************)
(* TiagoXacroConfigSubstitution.perform: five reads in source order, the   *)
(* first failure propagating, then the concatenation.                      *)
(***************************************************************************)
\* the block with wrist_model passed too
TiagoXacroConfigSubstitution_perform_wrist(context) ==
    LET laser_model  == read_launch_argument("laser_model", context)
        arm          == read_launch_argument("arm", context)
        wrist_model  == read_launch_argument("wrist_model", context)
        end_effector == read_launch_argument("end_effector", context)
        ft_sensor    == read_launch_argument("ft_sensor", context)
        camera_model == read_launch_argument("camera_model", context)
    IN  IF laser_model.status = "raised" THEN laser_model
        ELSE IF arm.status = "raised" THEN arm
        ELSE IF wrist_model.status = "raised" THEN wrist_model
        ELSE IF end_effector.status = "raised" THEN end_effector
        ELSE IF ft_sensor.status = "raised" THEN ft_sensor
        ELSE IF camera_model.status = "raised" THEN camera_model
        ELSE Returned(" laser_model:=" \o laser_model.text \o
                      " arm:=" \o arm.text \o
                      " wrist_model:=" \o wrist_model.text \o
                      " end_effector:=" \o end_effector.text \o
                      " ft_sensor:=" \o ft_sensor.text \o
                      " camera_model:=" \o camera_model.text)

\* the block with the separator after each token instead of before it
TiagoXacroConfigSubstitution_perform_trailing(context) ==
    LET laser_model  == read_launch_argument("laser_model", context)
        arm          == read_launch_argument("arm", context)
        end_effector == read_launch_argument("end_effector", context)
        ft_sensor    == read_launch_argument("ft_sensor", context)
        camera_model == read_launch_argument("camera_model", context)
    IN  IF laser_model.status = "raised" THEN laser_model
        ELSE IF arm.status = "raised" THEN arm
        ELSE IF end_effector.status = "raised" THEN end_effector
        ELSE IF ft_sensor.status = "raised" THEN ft_sensor
        ELSE IF camera_model.status = "raised" THEN camera_model
        ELSE Returned("laser_model:=" \o laser_model.text \o " " \o
                      "arm:=" \o arm.text \o " " \o
                      "end_effector:=" \o end_effector.text \o " " \o
                      "ft_sensor:=" \o ft_sensor.text \o " " \o
                      "camera_model:=" \o camera_model.text \o " ")

\* the block with a failed read replaced by the empty text
TiagoXacroConfigSubstitution_perform_lenient(context) ==
    LET Read(name) == LET r == read_launch_argument(name, context)
                      IN  IF r.status = "raised" THEN "" ELSE r.text
    IN  Returned(" laser_model:=" \o Read("laser_model") \o
                 " arm:=" \o Read("arm") \o
                 " end_effector:=" \o Read("end_effector") \o
                 " ft_sensor:=" \o Read("ft_sensor") \o
                 " camera_model:=" \o Read("camera_model"))

TiagoXacroConfigSubstitution_perform(context) ==
    LET laser_model  == read_launch_argument("laser_model", context)
        arm          == read_launch_argument("arm", context)
        end_effector == read_launch_argument("end_effector", context)
        ft_sensor    == read_launch_argument("ft_sensor", context)
        camera_model == read_launch_argument("camera_model", context)
    IN  IF laser_model.status = "raised" THEN laser_model
        ELSE IF arm.status = "raised" THEN arm
        ELSE IF end_effector.status = "raised" THEN end_effector
        ELSE IF ft_sensor.status = "raised" THEN ft_sensor
        ELSE IF camera_model.status = "raised" THEN camera_model
        ELSE Returned(" laser_model:=" \o laser_model.text \o
                      " arm:=" \o arm.text \o
                      " end_effector:=" \o end_effector.text \o
                      " ft_sensor:=" \o ft_sensor.text \o
                      " camera_model:=" \o camera_model.text)

(***************************************************************************)
(* Evaluation by the launch runtime.  The installation the packages are    *)
(* found in is fixed.                                                      *)
(***************************************************************************)
InstallPrefix == "/opt/ros"

\* ExecutableInPackage.perform: <prefix>/lib/<package>/<executable>
ExecutableInPackage_perform(arg) ==
    Returned(InstallPrefix \o "/lib/" \o arg[1] \o "/" \o arg[2])

\* FindPackageShare.perform: <prefix>/share/<package>
FindPackageShare_perform(package) == InstallPrefix \o "/share/" \o package

\* PathJoinSubstitution.perform: os.path.join of the performed parts
RECURSIVE PathJoin(_, _)
PathJoin(parts, i) ==
    IF i > Len(parts) THEN "" ELSE "/" \o parts[i] \o PathJoin(parts, i + 1)

PathJoinSubstitution_perform(arg) ==
    Returned(FindPackageShare_perform(arg[1]) \o PathJoin(arg, 2))

Perform(sub, context) ==
    CASE sub.kind = "Text" -> Returned(sub.arg[1])
      [] sub.kind = "LaunchConfiguration" ->
            LaunchConfiguration_perform(sub.arg[1], context)
      [] sub.kind = "ExecutableInPackage" -> ExecutableInPackage_perform(sub.arg)
      [] sub.kind = "PathJoinSubstitution" -> PathJoinSubstitution_perform(sub.arg)
      [] sub.kind = "TiagoXacroConfigSubstitution" ->
            TiagoXacroConfigSubstitution_perform(context)

\* perform_substitutions: the texts of the fragments joined, left to right;
\* the first failure propagates
RECURSIVE perform_substitutions(_, _, _)
perform_substitutions(subs, context, i) ==
    IF i > Len(subs) THEN Returned("")
    ELSE LET head == Perform(subs[i], context)
         IN  IF head.status = "raised" THEN head
             ELSE LET tail == perform_substitutions(subs, context, i + 1)
                  IN  IF tail.status = "raised" THEN tail
                      ELSE Returned(head.text \o tail.text)

\* PythonExpression.perform, up to the text of the Python expression handed
\* to the interpreter
PythonExpression_perform(elements, context) ==
    perform_substitutions(elements, context, 1)

\* the document the xacro process prints for a command line
Xacro(command_line) == "<!-- " \o command_line \o " --><robot name=\"tiago\"/>"

\* Command.perform: the command line is the join of the fragments; the
\* process is spawned only once the whole line is known
Command_perform(command, context) ==
    LET line == perform_substitutions(command, context, 1)
    IN  IF line.status = "raised"
        THEN [status |-> "raised", text |-> "", error |-> line.error, spawned |-> ""]
        ELSE [status |-> "returned", text |-> Xacro(line.text), error |-> "",
              spawned |-> line.text]

NotSpawning(outcome) ==
    [status |-> outcome.status, text |-> outcome.text, error |-> outcome.error,
     spawned |-> ""]

Evaluation(of, outcome) ==
    [of |-> of, status |-> outcome.status, text |-> outcome.text,
     error |-> outcome.error, spawned |-> outcome.spawned]

(***************************************************************************)
(* The callers' inputs.                                                    *)
(***************************************************************************)
\* flags a caller passes as True; a flag it omits is bound to False
FlagSets == { [n \in D |-> TRUE] : D \in SUBSET HwNames }

\* default_<name> overrides a caller may pass: a member of the choices
\* other than the built-in default, and a value that is no member
OverrideValues(n) ==
    CASE n = "arm"          -> <<"right-arm", "two-arms">>
      [] n = "wrist_model"  -> <<"wrist-2017", "wrist-2023">>
      [] n = "end_effector" -> <<"pal-gripper", "robotiq-2f-85">>
      [] n = "ft_sensor"    -> <<"no-ft-sensor", "ati-ft">>
      [] n = "camera_model" -> <<"asus-xtion", "realsense-d435">>

DefaultKey(n) == "default_" \o n

DefaultKwargs ==
    UNION { { [k \in {DefaultKey(n) : n \in D} |->
                 LET n == CHOOSE m \in D : DefaultKey(m) = k
                 IN  OverrideValues(n)[i[n]]] : i \in [D -> 1..2] }
            : D \in SUBSET HwNames }

Unevaluated ==
    [of |-> "none", status |-> "none", text |-> "", error |-> "", spawned |-> ""]

\* nothing built, nothing evaluated, an empty launch context
Idle ==
    /\ suffix_in = [called |-> FALSE, flags |-> <<>>]
    /\ suffix_elements = <<>>
    /\ stdout = <<>>
    /\ description = <<>>
    /\ config = <<>>
    /\ result = Unevaluated
    /\ evaluated_before = FALSE

(***************************************************************************)
(* The Argument Declarator: a caller holds the arguments of a call, the    *)
(* call returns the list.                                                  *)
(***************************************************************************)
InitArguments ==
    /\ \E flags \in FlagSets, kwargs \in DefaultKwargs,
          base \in get_tiago_base_hw_arguments :
            hw_in = [called |-> FALSE, flags |-> flags, kwargs |-> kwargs,
                     base |-> base]
    /\ hw_out = <<>>
    /\ Idle

CallGetTiagoHwArguments ==
    /\ ~hw_in.called
    /\ hw_in' = [hw_in EXCEPT !.called = TRUE]
    /\ hw_out' = get_tiago_hw_arguments(hw_in.flags, hw_in.kwargs, hw_in.base)
    /\ UNCHANGED <<suffix_in, suffix_elements, stdout, description,
                   config, result, evaluated_before>>

NextArguments == CallGetTiagoHwArguments

SpecArguments == InitArguments /\ [][NextArguments]_vars

(***************************************************************************)
(* The deferred expressions: built by the launch file, evaluated by the    *)
(* launch runtime against its context, which the runtime alone changes.    *)
(* Each call of get_tiago_hw_suffix returns a new expression; the model    *)
(* follows one of them.                                                    *)
(***************************************************************************)
ConfigNames == {"laser_model"} \union HwNames

\* values the runtime resolves a name to
ContextValues(n) ==
    CASE n = "laser_model"  -> {"sick-571", "hokuyo"}
      [] n = "arm"          -> {"no-arm", "right-arm"}
      [] n = "wrist_model"  -> {"wrist-2010", "wrist-2017"}
      [] n = "end_effector" -> {"no-end-effector", "pal-gripper"}
      [] n = "ft_sensor"    -> {"schunk-ft", "no-ft-sensor"}
      [] n = "camera_model" -> {"orbbec-astra", "asus-xtion"}

InitEvaluation ==
    /\ hw_in = [called |-> FALSE, flags |-> <<>>, kwargs |-> <<>>, base |-> <<>>]
    /\ hw_out = <<>>
    /\ Idle

CallGetTiagoHwSuffix ==
    /\ ~suffix_in.called
    /\ \E flags \in FlagSets :
        /\ suffix_in' = [called |-> TRUE, flags |-> flags]
        /\ suffix_elements' = get_tiago_hw_suffix(flags)
        /\ stdout' = <<get_tiago_hw_suffix(flags)>>
    /\ UNCHANGED <<hw_in, hw_out, description, config, result, evaluated_before>>

CallGenerateRobotDescriptionAction ==
    /\ description' = generate_robot_description_action
    /\ UNCHANGED <<hw_in, hw_out, suffix_in, suffix_elements, stdout, config,
                   result, evaluated_before>>

\* the context changes: what was evaluated in the old one is no longer the
\* outcome of an evaluation in the current one
ContextChanged ==
    /\ result' = Unevaluated
    /\ evaluated_before' = (evaluated_before \/ result.of = "suffix")
    /\ UNCHANGED <<hw_in, hw_out, suffix_in, suffix_elements, stdout, description>>

SetLaunchConfiguration ==
    \E n \in ConfigNames : \E v \in ContextValues(n) :
        /\ n \in DOMAIN config => config[n] # v
        /\ config' = [m \in DOMAIN config \union {n} |-> IF m = n THEN v ELSE config[m]]
        /\ ContextChanged

UnsetLaunchConfiguration ==
    \E n \in DOMAIN config :
        /\ config' = [m \in DOMAIN config \ {n} |-> config[m]]
        /\ ContextChanged

EvaluateSuffix ==
    /\ suffix_in.called
    /\ result' = Evaluation("suffix",
                    NotSpawning(PythonExpression_perform(suffix_elements, config)))
    /\ UNCHANGED <<hw_in, hw_out, suffix_in, suffix_elements, stdout, description,
                   config, evaluated_before>>

EvaluateXacroConfig ==
    /\ result' = Evaluation("xacro_config",
                    NotSpawning(TiagoXacroConfigSubstitution_perform(config)))
    /\ UNCHANGED <<hw_in, hw_out, suffix_in, suffix_elements, stdout, description,
                   config, evaluated_before>>

EvaluateDescription ==
    /\ description # <<>>
    /\ result' = Evaluation("description", Command_perform(description, config))
    /\ UNCHANGED <<hw_in, hw_out, suffix_in, suffix_elements, stdout, description,
                   config, evaluated_before>>

NextEvaluation ==
    \/ CallGetTiagoHwSuffix
    \/ CallGenerateRobotDescriptionAction
    \/ SetLaunchConfiguration
    \/ UnsetLaunchConfiguration
    \/ EvaluateSuffix
    \/ EvaluateXacroConfig
    \/ EvaluateDescription

SpecEvaluation == InitEvaluation /\ [][NextEvaluation]_vars

(***************************************************************************)
(* What the specification says of the Argument Declarator.                 *)
(***************************************************************************)
AllowedValues(n) ==
    CASE n = "arm"          -> {"no-arm", "left-arm", "right-arm"}
      [] n = "wrist_model"  -> {"wrist-2010", "wrist-2017"}
      [] n = "end_effector" -> {"pal-gripper", "pal-hey5", "schunk-wsg", "custom",
                                "no-end-effector"}
      [] n = "ft_sensor"    -> {"schunk-ft", "no-ft-sensor"}
      [] n = "camera_model" -> {"no-camera", "orbbec-astra", "orbbec-astra-pro",
                                "asus-xtion"}

BuiltinDefault(n) ==
    CASE n = "arm"          -> "no-arm"
      [] n = "wrist_model"  -> "wrist-2010"
      [] n = "end_effector" -> "no-end-effector"
      [] n = "ft_sensor"    -> "schunk-ft"
      [] n = "camera_model" -> "orbbec-astra"

Flagged(flags) == {n \in HwNames : n \in DOMAIN flags /\ flags[n]}

ExpectedDefault(kwargs, n) ==
    IF DefaultKey(n) \in DOMAIN kwargs THEN kwargs[DefaultKey(n)] ELSE BuiltinDefault(n)

Positions(list, n) == {i \in 1..Len(list) : list[i].name = n}

\* the names of HwOrder that are in S, in HwOrder's order
RECURSIVE InOrder(_, _)
InOrder(S, i) ==
    IF i > Len(HwOrder) THEN <<>>
    ELSE (IF HwOrder[i] \in S THEN <<HwOrder[i]>> ELSE <<>>) \o InOrder(S, i + 1)

\* C1: the returned list holds exactly one declaration per true flag and none
\* for a false flag, each with its fixed name, its fixed allowed values and
\* the built-in default or, when default_<name> is passed, that override.
C1_OneDeclarationPerFlag ==
    hw_in.called =>
        \A n \in HwNames :
            IF n \in Flagged(hw_in.flags)
            THEN /\ Cardinality(Positions(hw_out, n)) = 1
                 /\ \A i \in Positions(hw_out, n) :
                        /\ Range(hw_out[i].choices) = AllowedValues(n)
                        /\ Len(hw_out[i].choices) = Cardinality(AllowedValues(n))
                        /\ hw_out[i].default_value = ExpectedDefault(hw_in.kwargs, n)
            ELSE Positions(hw_out, n) = {}

C1_Witness ==
    /\ hw_in.called
    /\ Flagged(hw_in.flags) = {"arm", "end_effector", "camera_model"}
    /\ DOMAIN hw_in.kwargs = {"default_arm", "default_ft_sensor"}
    /\ hw_in.kwargs["default_arm"] = "right-arm"
    /\ Len(hw_in.base) = 1

\* C2: the returned list is the base-hardware list, unchanged and in order,
\* followed by the declarations of the true flags in the order arm,
\* wrist_model, end_effector, ft_sensor, camera_model.
C2_BaseThenFixedOrder ==
    hw_in.called =>
        LET nb    == Len(hw_in.base)
            names == InOrder(Flagged(hw_in.flags), 1)
        IN  /\ Len(hw_out) = nb + Len(names)
            /\ SubSeq(hw_out, 1, nb) = hw_in.base
            /\ \A i \in 1..Len(names) : hw_out[nb + i].name = names[i]

C2_Witness ==
    /\ hw_in.called
    /\ Len(hw_in.base) = 2
    /\ hw_in.base[1] # hw_in.base[2]
    /\ Flagged(hw_in.flags) = {"wrist_model", "ft_sensor", "camera_model"}

RECURSIVE JoinWith(_, _, _)
JoinWith(sep, list, i) ==
    IF i > Len(list) THEN ""
    ELSE IF i = Len(list) THEN list[i]
    ELSE list[i] \o sep \o JoinWith(sep, list, i + 1)

\* the names the dynamic argument block passes, in its order
XacroOrder == <<"laser_model", "arm", "end_effector", "ft_sensor", "camera_model">>

SuffixOrder == InOrder(Flagged(suffix_in.flags), 1)

Resolvable(names) == Range(names) \subseteq DOMAIN config

\* the first name of names that the context does not hold
FirstMissing(names) ==
    names[CHOOSE i \in 1..Len(names) :
            /\ names[i] \notin DOMAIN config
            /\ \A j \in 1..(i - 1) : names[j] \in DOMAIN config]

ExpectedSuffix ==
    "'" \o JoinWith("_", [i \in 1..Len(SuffixOrder) |-> config[SuffixOrder[i]]], 1) \o "'"

ExpectedTokens == [i \in 1..Len(XacroOrder) |-> XacroOrder[i] \o ":=" \o config[XacroOrder[i]]]

AllDefaults == \A n \in HwNames : n \in DOMAIN config /\ config[n] = BuiltinDefault(n)

C4_EmptyQuoted ==
    (result.of = "suffix" /\ SuffixOrder = <<>>) =>
        result.status = "returned" /\ result.text = "''"

\* C5: in a context that resolves laser_model, arm, end_effector, ft_sensor
\* and camera_model, TiagoXacroConfigSubstitution.perform returns the five
\* tokens name:=value in that order, each preceded by one space, with no
\* trailing space.
C5_ArgumentBlock ==
    (result.of = "xacro_config" /\ Resolvable(XacroOrder)) =>
        /\ result.status = "returned"
        /\ result.text = " " \o JoinWith(" ", ExpectedTokens, 1)

C5_Witness ==
    /\ result.of = "xacro_config"
    /\ result.text = " laser_model:=sick-571 arm:=no-arm end_effector:=pal-gripper"
                     \o " ft_sensor:=no-ft-sensor camera_model:=asus-xtion"

\* C6: evaluating the argument block, the description command or the suffix
\* expression in a context that lacks a name it references raises the lookup
\* failure of the first such name: no text is returned, no default is put in
\* its place and no process is spawned.
C6_LookupFailurePropagates ==
    /\ (result.of \in {"xacro_config", "description"} /\ ~Resolvable(XacroOrder)) =>
          result = Evaluation(result.of,
                      NotSpawning(Raised(DoesNotExist(FirstMissing(XacroOrder)))))
    /\ (result.of = "suffix" /\ ~Resolvable(SuffixOrder)) =>
          result = Evaluation("suffix",
                      NotSpawning(Raised(DoesNotExist(FirstMissing(SuffixOrder)))))

C6_Witness ==
    /\ result.of = "description"
    /\ DOMAIN config = ConfigNames \ {"laser_model"}
    /\ result.status = "raised"

\* C7: the command is four fragments, the xacro executable, a single space,
\* the path share(tiago_description)/robots/tiago.urdf.xacro and the dynamic
\* argument block, so that the command line run is the executable, the
\* template path and the tokens separated by single spaces.
C7_CommandShape ==
    /\ description # <<>> =>
          /\ Len(description) = 4
          /\ description[1].kind = "ExecutableInPackage"
          /\ description[1].arg = <<"xacro", "xacro">>
          /\ description[2].kind = "Text" /\ description[2].arg = <<" ">>
          /\ description[3].kind = "PathJoinSubstitution"
          /\ description[3].arg = <<"tiago_description", "robots", "tiago.urdf.xacro">>
          /\ description[4].kind = "TiagoXacroConfigSubstitution"
    /\ (result.of = "description" /\ result.status = "returned") =>
          result.spawned =
              JoinWith(" ", << InstallPrefix \o "/lib/xacro/xacro",
                               InstallPrefix \o "/share/tiago_description/robots/tiago.urdf.xacro" >>
                            \o ExpectedTokens, 1)

C7_Witness ==
    /\ result.of = "description"
    /\ result.spawned =
          "/opt/ros/lib/xacro/xacro /opt/ros/share/tiago_description/robots/tiago.urdf.xacro"
          \o " laser_model:=hokuyo arm:=right-arm end_effector:=pal-gripper"
          \o " ft_sensor:=schunk-ft camera_model:=orbbec-astra"

\* C9: the suffix expression is not cached: evaluated again after the context
\* changed, it yields the suffix of the values the context holds now, and
\* fails when a referenced name is no longer in it.
C9_ReevaluatedInCurrentContext ==
    (result.of = "suffix" /\ evaluated_before /\ SuffixOrder # <<>>) =>
        IF Resolvable(SuffixOrder)
        THEN result.status = "returned" /\ result.text = ExpectedSuffix
        ELSE result.status = "raised" /\ result.text = ""

C9_Witness ==
    /\ result.of = "suffix"
    /\ evaluated_before
    /\ Flagged(suffix_in.flags) = {"arm", "camera_model"}
    /\ result.text = "'right-arm_asus-xtion'"

\* the contexts that differ from config at most in wrist_model
WristVariants ==
    { [n \in DOMAIN config \ {"wrist_model"} |-> config[n]] }
    \union { [n \in DOMAIN config \union {"wrist_model"} |->
                IF n = "wrist_model" THEN w ELSE config[n]]
             : w \in ContextValues("wrist_model") }

\* C10: the dynamic argument block, and the command line run, do not depend
\* on wrist_model: in every context that differs from the current one only
\* in the value of wrist_model, or in whether it is declared, the evaluation
\* has the same outcome.
C10_WristModelIgnored ==
    \A c \in WristVariants :
        /\ result.of = "xacro_config" =>
              result = Evaluation("xacro_config",
                          NotSpawning(TiagoXacroConfigSubstitution_perform(c)))
        /\ result.of = "description" =>
              result = Evaluation("description", Command_perform(description, c))

C10_Witness ==
    /\ result.of = "xacro_config"
    /\ result.status = "returned"
    /\ "wrist_model" \in DOMAIN config
    /\ config["wrist_model"] = "wrist-2017"

====
